---- MODULE Spec2Model ----
(***************************************************************************)
(* Model of backfill.py: the sequential pipeline that resolves a list of   *)
(* build descriptors (nightly downloads for a date range, or local builds  *)
(* for a commit range), installs and measures each build, and optionally   *)
(* deletes the artifacts.  Every external program (HTTP download, git,     *)
(* gradlew, mv, adb, the measurement script, rm) is a nondeterministic     *)
(* choice over the outcomes it can have; the branching on the outcome is   *)
(* the code's.  Every external program is taken to be installed and        *)
(* launchable, so subprocess.run itself returns; the repository may hold   *)
(* a build output left by an earlier build before the run starts.          *)
(*                                                                         *)
(* A datetime is an integer number of ticks; a calendar day holds          *)
(* TicksPerDay ticks, and a datetime parsed with DATETIME_FORMAT is a      *)
(* multiple of TicksPerDay (midnight).                                     *)
(***************************************************************************)
EXTENDS Integers, Sequences, FiniteSets, TLC

\* Bounds of the model.
MaxDay == 2
TicksPerDay == 2
MaxCommits == 3
MaxRangeDay == 5

BUILD_SRC_TASKCLUSTER == "taskclusterNightly"
BUILD_SRC_COMMITS == "commitsRange"
BUILD_SRC_ALL == {BUILD_SRC_TASKCLUSTER, BUILD_SRC_COMMITS}

\* Python's None, for an optional command-line argument that was not given.
None == "None"

VARIABLES
    args,                  \* the parsed command line
    pc,                    \* position of main()
    exception,             \* the uncaught exception that ended the run, or "none"
    i,                     \* 1-based index of the loop the run is in
    array_of_dates,        \* main: array_of_dates
    array_of_commit_hash,  \* build_apks_for_commits: array_of_commit_hash
    apk_metadata_array,    \* the list of build descriptors
    built_apk,             \* the commit the file at the build output path was built from ({} when no file)
    files,                 \* artifact files in the working directory, with what each holds
    backfill_output,       \* files in BACKFILL_DIR
    stderr,                \* messages printed to standard error
    events                 \* external programs run so far, with their outcome

vars == <<args, pc, exception, i, array_of_dates, array_of_commit_hash,
          apk_metadata_array, built_apk, files, backfill_output, stderr, events>>

----------------------------------------------------------------------------
\* Helpers

\* datetime arithmetic: timedelta.days is the floor of the difference in days
TimedeltaDays(delta) == delta \div TicksPerDay

\* strftime(date, DATETIME_FORMAT): year, month and day only; the time of day is dropped
Strftime(date) == date \div TicksPerDay

Midnight(day) == day * TicksPerDay

\* a commit outside every listed range, whose build output may pre-exist in the repository
StaleCommit == MaxCommits + 1

Event(op, arg, outcome) == [op |-> op, arg |-> arg, outcome |-> outcome]
Message(msg, about) == [msg |-> msg, about |-> about]

\* "nightly_" + download_date_string.replace(".", "_") + ".apk"
NightlyFilename(download_date) ==
    [prefix |-> "nightly_", id |-> Strftime(download_date), ext |-> ".apk"]

\* "apk_commit_" + commit_hash + ".apk"
CommitFilename(commit_hash) ==
    [prefix |-> "apk_commit_", id |-> commit_hash, ext |-> ".apk"]

\* apk_metadata[KEY_NAME].split(".")[0]
ApkName(name) == [prefix |-> name.prefix, id |-> name.id]

\* DURATIONS_OUTPUT_FILE_TEMPLATE / ANALYZED_DURATIONS_FILE_TEMPLATE
DurationsOutputPath(run_number, apk_name) ==
    [kind |-> "durations_for", run_number |-> run_number, apk |-> apk_name]
AnalyzedDurationsPath(run_number, apk_name) ==
    [kind |-> "perf_results", run_number |-> run_number, apk |-> apk_name]

----------------------------------------------------------------------------
\* The functions of backfill.py.  A function that runs an external program
\* takes the program's outcome as a parameter and returns what the function
\* returns (ret), prints to standard error (printed) and raises (raised).

\* validate_args: "raise" when it raises, "ok" when it returns
validate_args(a) ==
    IF a.build_source = BUILD_SRC_COMMITS /\ a.repository_to_test_path = None
    THEN "raise"
    ELSE IF a.build_source = BUILD_SRC_COMMITS /\ a.startcommit = None /\ a.endcommit = None
         THEN "raise"
         ELSE "ok"

\* get_date_array_for_range with the end date left out (range(delta) without the + 1)
get_date_array_for_range_exclusive(startdate, enddate) ==
    LET delta_dates == TimedeltaDays(enddate - startdate)
    IN  [k \in 1..delta_dates |-> startdate + (k - 1) * TicksPerDay]

\* get_date_array_for_range
get_date_array_for_range(startdate, enddate) ==
    LET delta_dates == TimedeltaDays(enddate - startdate) + 1
    IN  [k \in 1..delta_dates |-> startdate + (k - 1) * TicksPerDay]

\* The outcomes of urllib.request.urlretrieve: the file is written; HTTPError
\* with code 404; HTTPError with another code; URLError that is no HTTPError.
DownloadOutcomes == {"ok", "http404", "httpOther", "urlError"}

\* fetch_nightly that lets every HTTPError escape, 404 included
fetch_nightly_uncaught(download_date, architecture, outcome) ==
    IF outcome = "ok"
    THEN [ret |-> <<[name |-> NightlyFilename(download_date), date |-> download_date,
                     commit |-> "", architecture |-> architecture]>>,
          printed |-> <<>>, raised |-> "none"]
    ELSE [ret |-> <<>>, printed |-> <<>>,
          raised |-> IF outcome = "urlError" THEN "URLError" ELSE "HTTPError"]

\* fetch_nightly: ret is <<>> for None and <<descriptor>> otherwise
fetch_nightly(download_date, architecture, outcome) ==
    LET filename == NightlyFilename(download_date)
    IN  CASE outcome = "ok" ->
               [ret |-> <<[name |-> filename, date |-> download_date, commit |-> "",
                           architecture |-> architecture]>>,
                printed |-> <<>>, raised |-> "none"]
          [] outcome = "http404" ->
               [ret |-> <<>>, printed |-> <<Message("apk not available", download_date)>>,
                raised |-> "none"]
          [] outcome = "httpOther" ->
               [ret |-> <<>>, printed |-> <<>>, raised |-> "none"]
          [] outcome = "urlError" ->
               [ret |-> <<>>, printed |-> <<>>, raised |-> "URLError"]

\* install_apk that reports success whatever adb's return code
install_apk_always_true(apk_build_path, returncode) ==
    IF returncode # "ok"
    THEN [ret |-> TRUE, printed |-> <<Message("Unable to install", apk_build_path)>>]
    ELSE [ret |-> TRUE, printed |-> <<>>]

\* install_apk
install_apk(apk_build_path, returncode) ==
    IF returncode # "ok"
    THEN [ret |-> FALSE, printed |-> <<Message("Unable to install", apk_build_path)>>]
    ELSE [ret |-> TRUE, printed |-> <<>>]

\* uninstall_apk
uninstall_apk(package_id, returncode) ==
    IF returncode # "ok"
    THEN [printed |-> <<Message("Unable to uninstall", package_id)>>]
    ELSE [printed |-> <<>>]

\* get_result_from_durations without the except FileNotFoundError clause
get_result_from_durations_uncaught(start_up_durations_path, analyzed_path, exists) ==
    IF ~exists
    THEN [printed |-> <<>>, saved |-> {}, raised |-> "FileNotFoundError"]
    ELSE [printed |-> <<>>, saved |-> {analyzed_path}, raised |-> "none"]

\* analyze_durations.detect_filetype opens the file: FileNotFoundError when it
\* is not there
detect_filetype(exists) == IF exists THEN "filetype" ELSE "FileNotFoundError"

\* get_result_from_durations: exists tells whether the durations file is there
get_result_from_durations(start_up_durations_path, analyzed_path, exists) ==
    IF detect_filetype(exists) = "FileNotFoundError"
    THEN [printed |-> <<Message("durations file doesn't exist", start_up_durations_path)>>,
          saved |-> {}, raised |-> "none"]
    ELSE [printed |-> <<>>, saved |-> {analyzed_path}, raised |-> "none"]

\* fetch_repository
fetch_repository(repository_path, returncode) ==
    IF returncode # "ok"
    THEN [printed |-> <<Message("fetching repository went wrong", repository_path)>>]
    ELSE [printed |-> <<>>]

\* get_all_commits_in_commits_range: the command line is built with str + str,
\* which raises TypeError on None before git runs; on a non-zero return code the
\* message is built with stderr.decode, and stderr is a str (text=True)
get_all_commits_in_commits_range(start_commit, end_commit, returncode, stdout) ==
    IF start_commit = None \/ end_commit = None
    THEN [ran |-> FALSE, ret |-> <<>>, raised |-> "TypeError"]
    ELSE IF returncode # "ok"
         THEN [ran |-> TRUE, ret |-> <<>>, raised |-> "AttributeError"]
         ELSE [ran |-> TRUE, ret |-> stdout, raised |-> "none"]

\* build_apk_for_commit: which programs ran, what was printed, whether an
\* artifact was written to the build output path
build_apk_for_commit(hash, checkout_rc, assemble_rc) ==
    IF checkout_rc # "ok"
    THEN [ran |-> <<Event("git checkout", hash, checkout_rc)>>,
          printed |-> <<Message("checking out went wrong", hash)>>,
          built |-> FALSE]
    ELSE IF assemble_rc # "ok"
         THEN [ran |-> <<Event("git checkout", hash, checkout_rc),
                         Event("gradlew assemble", hash, assemble_rc)>>,
               printed |-> <<Message("assembling went wrong", hash)>>,
               built |-> FALSE]
         ELSE [ran |-> <<Event("git checkout", hash, checkout_rc),
                         Event("gradlew assemble", hash, assemble_rc)>>,
               printed |-> <<>>,
               built |-> TRUE]

\* move_apk_to_cwd: on a non-zero return code the message is built with
\* proc.stderr.decode, and proc.stderr is None (the output is not captured)
move_apk_to_cwd(commit_hash, returncode) ==
    IF returncode # "ok"
    THEN [ret |-> CommitFilename(commit_hash), raised |-> "AttributeError"]
    ELSE [ret |-> CommitFilename(commit_hash), raised |-> "none"]

\* main that cleans up whatever the switch
CleanupAlways(a) == TRUE

\* main: `if args.cleanup is True`
CleanupRequested(a) == a.cleanup = TRUE

\* FENIX_CHANNEL_TO_PKG
FENIX_CHANNEL_TO_PKG(channel) ==
    CASE channel = "nightly" -> "org.mozilla.fenix"
      [] channel = "beta" -> "org.mozilla.firefox.beta"
      [] channel = "release" -> "org.mozilla.firefox"
      [] channel = "debug" -> "org.mozilla.fenix.debug"

\* git rev-list prints the commits of the range, newest first
RevListOutput(n) == [k \in 1..n |-> n + 1 - k]

----------------------------------------------------------------------------
\* The command lines parse_args can return.  --startdate is parsed with
\* DATETIME_FORMAT (midnight); --enddate is parsed the same way or defaults to
\* datetime.now() (any time of day).

NightlyArgs ==
    [build_source : {BUILD_SRC_TASKCLUSTER},
     release_channel : {"nightly"},
     architecture : {"armeabi-v7a"},
     startdate : {Midnight(d) : d \in 0..MaxDay},
     enddate : 0..(Midnight(MaxDay + 1) - 1),
     startcommit : {None},
     endcommit : {None},
     repository_to_test_path : {None},
     cleanup : BOOLEAN]

CommitArgs ==
    [build_source : {BUILD_SRC_COMMITS},
     release_channel : {"nightly"},
     architecture : {"armeabi-v7a"},
     startdate : {Midnight(0)},
     enddate : {Midnight(0)},
     startcommit : {None, "startcommit"},
     endcommit : {None, "endcommit"},
     repository_to_test_path : {None, "repository"},
     cleanup : BOOLEAN]

InitRest ==
    /\ exception = "none"
    /\ i = 1
    /\ array_of_dates = <<>>
    /\ array_of_commit_hash = <<>>
    /\ apk_metadata_array = <<>>
    /\ files = {}
    /\ backfill_output = {}
    /\ stderr = <<>>
    /\ events = <<>>

Init ==
    /\ \/ args \in NightlyArgs /\ built_apk = {}
       \/ args \in CommitArgs /\ built_apk \in {{}, {StaleCommit}}
    /\ pc = "validate_args"
    /\ InitRest

Raise(e) ==
    /\ pc' = "raised"
    /\ exception' = e

\* main: validate_args(args), then the branch on args.build_source
ValidateArgs ==
    /\ pc = "validate_args"
    /\ IF validate_args(args) = "raise"
       THEN Raise("Exception")
       ELSE /\ pc' = IF args.build_source = BUILD_SRC_TASKCLUSTER
                     THEN "get_date_array_for_range"
                     ELSE "fetch_repository"
            /\ UNCHANGED exception
    /\ UNCHANGED <<args, i, array_of_dates, array_of_commit_hash, apk_metadata_array,
                   built_apk, files, backfill_output, stderr, events>>

\* main: array_of_dates = get_date_array_for_range(args.startdate, args.enddate)
GetDateArrayForRange ==
    /\ pc = "get_date_array_for_range"
    /\ array_of_dates' = get_date_array_for_range(args.startdate, args.enddate)
    /\ i' = 1
    /\ pc' = "fetch_nightly"
    /\ UNCHANGED <<args, exception, array_of_commit_hash, apk_metadata_array,
                   built_apk, files, backfill_output, stderr, events>>

\* download_nightly_for_range: one fetch_nightly call of the comprehension
FetchNightly ==
    /\ pc = "fetch_nightly"
    /\ i <= Len(array_of_dates)
    /\ \E outcome \in DownloadOutcomes :
         LET date == array_of_dates[i]
             r == fetch_nightly(date, args.architecture, outcome)
         IN  /\ events' = Append(events, Event("urlretrieve", date, outcome))
             /\ files' = IF outcome = "ok"
                         THEN files \cup {[name |-> NightlyFilename(date), origin |-> Strftime(date)]}
                         ELSE files
             /\ stderr' = stderr \o r.printed
             /\ IF r.raised # "none"
                THEN /\ Raise(r.raised)
                     /\ UNCHANGED <<i, apk_metadata_array>>
                ELSE /\ apk_metadata_array' = apk_metadata_array \o r.ret
                     /\ i' = i + 1
                     /\ UNCHANGED <<pc, exception>>
    /\ UNCHANGED <<args, array_of_dates, array_of_commit_hash, built_apk, backfill_output>>

\* download_nightly_for_range returns the descriptors that are not None
DownloadNightlyForRangeReturn ==
    /\ pc = "fetch_nightly"
    /\ i > Len(array_of_dates)
    /\ pc' = "uninstall_apk"
    /\ i' = 1
    /\ UNCHANGED <<args, exception, array_of_dates, array_of_commit_hash, apk_metadata_array,
                   built_apk, files, backfill_output, stderr, events>>

\* build_apks_for_commits: fetch_repository(repository_path, remote_name)
FetchRepository ==
    /\ pc = "fetch_repository"
    /\ \E returncode \in {"ok", "fail"} :
         /\ events' = Append(events, Event("git fetch", "upstream", returncode))
         /\ stderr' = stderr \o fetch_repository(args.repository_to_test_path, returncode).printed
    /\ pc' = "get_all_commits_in_commits_range"
    /\ UNCHANGED <<args, exception, i, array_of_dates, array_of_commit_hash,
                   apk_metadata_array, built_apk, files, backfill_output>>

\* build_apks_for_commits: array_of_commit_hash = get_all_commits_in_commits_range(...)
GetAllCommitsInCommitsRange ==
    /\ pc = "get_all_commits_in_commits_range"
    /\ \E returncode \in {"ok", "fail"}, n \in 0..MaxCommits :
         LET stdout == IF returncode = "ok" THEN RevListOutput(n) ELSE <<>>
             r == get_all_commits_in_commits_range(args.startcommit, args.endcommit,
                                                   returncode, stdout)
         IN  /\ events' = IF r.ran
                          THEN Append(events, Event("git rev-list", "range", returncode))
                          ELSE events
             /\ IF r.raised # "none"
                THEN /\ Raise(r.raised)
                     /\ UNCHANGED <<array_of_commit_hash, i>>
                ELSE /\ array_of_commit_hash' = r.ret
                     /\ i' = 1
                     /\ pc' = "build_apk_for_commit"
                     /\ UNCHANGED exception
    /\ UNCHANGED <<args, array_of_dates, apk_metadata_array, built_apk, files,
                   backfill_output, stderr>>

\* build_apks_for_commits, loop body: build_apk_for_commit(commit, ...)
BuildApkForCommit ==
    /\ pc = "build_apk_for_commit"
    /\ i <= Len(array_of_commit_hash)
    /\ \E checkout_rc \in {"ok", "fail"}, assemble_rc \in {"ok", "fail"} :
         LET commit == array_of_commit_hash[i]
             r == build_apk_for_commit(commit, checkout_rc, assemble_rc)
         IN  /\ events' = events \o r.ran
             /\ stderr' = stderr \o r.printed
             /\ built_apk' = IF r.built THEN {commit} ELSE built_apk
    /\ pc' = "move_apk_to_cwd"
    /\ UNCHANGED <<args, exception, i, array_of_dates, array_of_commit_hash,
                   apk_metadata_array, files, backfill_output>>

\* build_apks_for_commits, loop body: move_apk_to_cwd(built_apk_name, commit) and
\* the append of the descriptor.  mv can succeed only when the build output exists.
MoveApkToCwd ==
    /\ pc = "move_apk_to_cwd"
    /\ \E returncode \in {"ok", "fail"} :
         LET commit == array_of_commit_hash[i]
             r == move_apk_to_cwd(commit, returncode)
         IN  /\ returncode = "ok" => built_apk # {}
             /\ events' = Append(events, Event("mv", commit, returncode))
             /\ IF returncode = "ok"
                THEN /\ files' = {f \in files : f.name # r.ret}
                                 \cup {[name |-> r.ret, origin |-> o] : o \in built_apk}
                     /\ built_apk' = {}
                ELSE UNCHANGED <<files, built_apk>>
             /\ IF r.raised # "none"
                THEN /\ Raise(r.raised)
                     /\ UNCHANGED <<i, apk_metadata_array>>
                ELSE /\ apk_metadata_array' =
                          Append(apk_metadata_array,
                                 [name |-> r.ret, date |-> "", commit |-> commit,
                                  architecture |-> args.architecture])
                     /\ i' = i + 1
                     /\ pc' = "build_apk_for_commit"
                     /\ UNCHANGED exception
    /\ UNCHANGED <<args, array_of_dates, array_of_commit_hash, backfill_output, stderr>>

\* build_apks_for_commits returns apk_metadata_array
BuildApksForCommitsReturn ==
    /\ pc = "build_apk_for_commit"
    /\ i > Len(array_of_commit_hash)
    /\ pc' = "uninstall_apk"
    /\ i' = 1
    /\ UNCHANGED <<args, exception, array_of_dates, array_of_commit_hash, apk_metadata_array,
                   built_apk, files, backfill_output, stderr, events>>

----------------------------------------------------------------------------
\* run_performance_analysis_on_nightly: enumerate() counts from 0

RunNumber == i - 1
ApkMetadata == apk_metadata_array[i]
FileExists(name) == \E f \in files : f.name = name

\* analyze_nightly_for_one_build: uninstall_apk(package_id)
UninstallApk ==
    /\ pc = "uninstall_apk"
    /\ i <= Len(apk_metadata_array)
    /\ \E returncode \in {"ok", "fail"} :
         /\ events' = Append(events, Event("adb uninstall", RunNumber, returncode))
         /\ stderr' = stderr \o
              uninstall_apk(FENIX_CHANNEL_TO_PKG(args.release_channel), returncode).printed
    /\ pc' = "install_apk"
    /\ UNCHANGED <<args, exception, i, array_of_dates, array_of_commit_hash,
                   apk_metadata_array, built_apk, files, backfill_output>>

\* analyze_nightly_for_one_build: was_install_successful = install_apk(...) and
\* the branch on it.  adb install can succeed only when the file exists.
InstallApk ==
    /\ pc = "install_apk"
    /\ \E returncode \in {"ok", "fail"} :
         LET r == install_apk(ApkMetadata.name, returncode)
         IN  /\ returncode = "ok" => FileExists(ApkMetadata.name)
             /\ events' = Append(events, Event("adb install", RunNumber, returncode))
             /\ stderr' = stderr \o r.printed
             /\ IF r.ret
                THEN /\ pc' = "run_measure_start_up_script"
                     /\ UNCHANGED i
                ELSE /\ pc' = "uninstall_apk"
                     /\ i' = i + 1
    /\ UNCHANGED <<args, exception, array_of_dates, array_of_commit_hash,
                   apk_metadata_array, built_apk, files, backfill_output>>

\* analyze_nightly_for_one_build: run_measure_start_up_script(...); the script
\* writes the durations file or leaves none
RunMeasureStartUpScript ==
    /\ pc = "run_measure_start_up_script"
    /\ \E outcome \in {"ok", "fail"} :
         /\ events' = Append(events, Event("measure_start_up", RunNumber, outcome))
         /\ backfill_output' =
              IF outcome = "ok"
              THEN backfill_output \cup {DurationsOutputPath(RunNumber, ApkName(ApkMetadata.name))}
              ELSE backfill_output
    /\ pc' = "get_result_from_durations"
    /\ UNCHANGED <<args, exception, i, array_of_dates, array_of_commit_hash,
                   apk_metadata_array, built_apk, files, stderr>>

\* analyze_nightly_for_one_build: get_result_from_durations(...), the last
\* statement of the loop body
GetResultFromDurations ==
    /\ pc = "get_result_from_durations"
    /\ LET apk_name == ApkName(ApkMetadata.name)
           durations_output_path == DurationsOutputPath(RunNumber, apk_name)
           analyzed_durations_path == AnalyzedDurationsPath(RunNumber, apk_name)
           r == get_result_from_durations(durations_output_path, analyzed_durations_path,
                                          durations_output_path \in backfill_output)
       IN  /\ events' = Append(events, Event("get_result_from_durations", RunNumber,
                                             IF r.saved # {} THEN "ok" ELSE "fail"))
           /\ stderr' = stderr \o r.printed
           /\ backfill_output' = backfill_output \cup r.saved
           /\ IF r.raised # "none"
              THEN /\ Raise(r.raised)
                   /\ UNCHANGED i
              ELSE /\ pc' = "uninstall_apk"
                   /\ i' = i + 1
                   /\ UNCHANGED exception
    /\ UNCHANGED <<args, array_of_dates, array_of_commit_hash, apk_metadata_array,
                   built_apk, files>>

\* main: run_performance_analysis_on_nightly returns; `if args.cleanup is True`
RunPerformanceAnalysisReturn ==
    /\ pc = "uninstall_apk"
    /\ i > Len(apk_metadata_array)
    /\ pc' = IF CleanupRequested(args) THEN "cleanup" ELSE "done"
    /\ i' = 1
    /\ UNCHANGED <<args, exception, array_of_dates, array_of_commit_hash, apk_metadata_array,
                   built_apk, files, backfill_output, stderr, events>>

\* cleanup: one rm of the loop
Cleanup ==
    /\ pc = "cleanup"
    /\ i <= Len(apk_metadata_array)
    /\ events' = Append(events, Event("rm", i - 1, "ok"))
    /\ files' = {f \in files : f.name # apk_metadata_array[i].name}
    /\ i' = i + 1
    /\ UNCHANGED <<args, pc, exception, array_of_dates, array_of_commit_hash,
                   apk_metadata_array, built_apk, backfill_output, stderr>>

\* cleanup returns and main ends
CleanupReturn ==
    /\ pc = "cleanup"
    /\ i > Len(apk_metadata_array)
    /\ pc' = "done"
    /\ UNCHANGED <<args, exception, i, array_of_dates, array_of_commit_hash,
                   apk_metadata_array, built_apk, files, backfill_output, stderr, events>>

Next ==
    \/ ValidateArgs
    \/ GetDateArrayForRange
    \/ FetchNightly
    \/ DownloadNightlyForRangeReturn
    \/ FetchRepository
    \/ GetAllCommitsInCommitsRange
    \/ BuildApkForCommit
    \/ MoveApkToCwd
    \/ BuildApksForCommitsReturn
    \/ UninstallApk
    \/ InstallApk
    \/ RunMeasureStartUpScript
    \/ GetResultFromDurations
    \/ RunPerformanceAnalysisReturn
    \/ Cleanup
    \/ CleanupReturn

Spec == Init /\ [][Next]_vars

----------------------------------------------------------------------------
\* get_date_array_for_range on its own, over a wider range of dates

RangeArgs ==
    [build_source : {BUILD_SRC_TASKCLUSTER},
     release_channel : {"nightly"},
     architecture : {"armeabi-v7a"},
     startdate : {Midnight(d) : d \in 0..MaxRangeDay},
     enddate : 0..(Midnight(MaxRangeDay + 1) - 1),
     startcommit : {None},
     endcommit : {None},
     repository_to_test_path : {None},
     cleanup : {FALSE}]

InitRange ==
    /\ args \in RangeArgs
    /\ built_apk = {}
    /\ pc = "get_date_array_for_range"
    /\ InitRest

NextRange == GetDateArrayForRange

SpecRange == InitRange /\ [][NextRange]_vars

----------------------------------------------------------------------------
\* Vocabulary of the properties

Nightly == args.build_source = BUILD_SRC_TASKCLUSTER
Commits == args.build_source = BUILD_SRC_COMMITS

AcquisitionPcs == {"get_date_array_for_range", "fetch_nightly", "fetch_repository",
                   "get_all_commits_in_commits_range", "build_apk_for_commit",
                   "move_apk_to_cwd"}
MeasurePcs == {"uninstall_apk", "install_apk", "run_measure_start_up_script",
               "get_result_from_durations"}
EndPcs == {"cleanup", "done"}

AcquisitionOps == {"urlretrieve", "git fetch", "git rev-list", "git checkout",
                   "gradlew assemble", "mv"}
MeasureOps == {"adb uninstall", "adb install", "measure_start_up",
               "get_result_from_durations"}

EventIdx == 1..Len(events)
DescriptorIdx == 1..Len(apk_metadata_array)
Happened(op, arg) == \E k \in EventIdx : events[k].op = op /\ events[k].arg = arg
HappenedWith(op, arg, outcome) ==
    \E k \in EventIdx : events[k].op = op /\ events[k].arg = arg /\ events[k].outcome = outcome
Printed(msg, about) == \E k \in 1..Len(stderr) : stderr[k].msg = msg /\ stderr[k].about = about
PrintedAbout(msgs, about) ==
    \E k \in 1..Len(stderr) : stderr[k].msg \in msgs /\ stderr[k].about = about

DownloadEvents == SelectSeq(events, LAMBDA e : e.op = "urlretrieve")
CheckoutEvents == SelectSeq(events, LAMBDA e : e.op = "git checkout")
DatesOf(evs) == [k \in 1..Len(evs) |-> evs[k].arg]

\* the command line names a repository and both commit bounds when it asks for commit mode
ArgsValid ==
    Commits => /\ args.repository_to_test_path # None
               /\ args.startcommit # None
               /\ args.endcommit # None

----------------------------------------------------------------------------
\* C1: in commit mode, when the start commit or the end commit is absent
\* (either one), validate_args raises, and no external program has run.
C1_MissingCommitBoundRaisesBeforeAnyAction ==
    (Commits /\ (args.startcommit = None \/ args.endcommit = None) /\ pc # "validate_args")
        => (pc = "raised" /\ exception = "Exception" /\ events = <<>>)

\* C2: in nightly mode a date whose download answers 404 yields no descriptor
\* and does not end the run; once the downloads are over every date of the
\* range has been attempted, in order, and the descriptors are exactly the
\* dates whose download succeeded, in date order.
C2_NotFoundSkipsDateOnly ==
    Nightly =>
      /\ \A k \in 1..Len(DownloadEvents) :
            DownloadEvents[k].outcome = "http404" =>
              /\ DownloadEvents[k].arg = array_of_dates[k]
              /\ \A d \in DescriptorIdx : apk_metadata_array[d].date # DownloadEvents[k].arg
              /\ k = Len(DownloadEvents) => exception = "none" /\ pc # "raised"
              /\ (k = Len(DownloadEvents) /\ pc = "fetch_nightly") => i = k + 1
      /\ pc \in MeasurePcs \cup EndPcs =>
            /\ DatesOf(DownloadEvents) = array_of_dates
            /\ [d \in DescriptorIdx |-> apk_metadata_array[d].date]
                 = SelectSeq(array_of_dates,
                             LAMBDA date : HappenedWith("urlretrieve", date, "ok"))

C2_Witness ==
    /\ Nightly
    /\ pc = "done"
    /\ Len(DownloadEvents) = 3
    /\ DownloadEvents[1].outcome = "ok"
    /\ DownloadEvents[2].outcome = "http404"
    /\ DownloadEvents[3].outcome = "ok"
    /\ Len(apk_metadata_array) = 2

\* C3: with valid arguments every failure of a step is reported to standard
\* error and is not fatal: no uncaught error ends the run.
C3_EveryFailureReportedAndNonFatal ==
    ArgsValid =>
      /\ exception = "none"
      /\ \A k \in EventIdx :
            /\ (events[k].op = "urlretrieve" /\ events[k].outcome \in {"httpOther", "urlError"})
                 => PrintedAbout({"apk not available", "download failed"}, events[k].arg)
            /\ (events[k].op = "git checkout" /\ events[k].outcome # "ok")
                 => Printed("checking out went wrong", events[k].arg)
            /\ (events[k].op = "gradlew assemble" /\ events[k].outcome # "ok")
                 => Printed("assembling went wrong", events[k].arg)
            /\ (events[k].op = "git fetch" /\ events[k].outcome # "ok")
                 => Printed("fetching repository went wrong", args.repository_to_test_path)
            /\ (events[k].op = "git rev-list" /\ events[k].outcome # "ok")
                 => PrintedAbout({"checking out commit range went wrong"}, events[k].arg)
            /\ (events[k].op = "mv" /\ events[k].outcome # "ok")
                 => PrintedAbout({"moving the built apk went wrong"}, events[k].arg)
            /\ (events[k].op = "adb uninstall" /\ events[k].outcome # "ok")
                 => Printed("Unable to uninstall", FENIX_CHANNEL_TO_PKG(args.release_channel))
            /\ (events[k].op = "adb install" /\ events[k].outcome # "ok")
                 => Printed("Unable to install", apk_metadata_array[events[k].arg + 1].name)
            /\ (events[k].op = "get_result_from_durations" /\ events[k].outcome # "ok")
                 => \E m \in 1..Len(stderr) :
                        /\ stderr[m].msg = "durations file doesn't exist"
                        /\ stderr[m].about.run_number = events[k].arg

\* C4: in nightly mode an HTTP error with a code other than 404 is reported:
\* a message about that date is written to standard error.
C4_OtherHttpErrorReported ==
    \A k \in EventIdx :
        (events[k].op = "urlretrieve" /\ events[k].outcome = "httpOther")
            => PrintedAbout({"apk not available", "download failed"}, events[k].arg)

\* C5: a failed install aborts measurement for that build only: the
\* measurement script is not run and no durations or statistics file is
\* produced for it, the run goes on, and every later descriptor is still
\* uninstalled, installed and (when its install succeeds) measured.
C5_InstallFailureSkipsThatBuildOnly ==
    \A k \in EventIdx :
        (events[k].op = "adb install" /\ events[k].outcome # "ok") =>
          LET n == events[k].arg
          IN  /\ ~Happened("measure_start_up", n)
              /\ ~Happened("get_result_from_durations", n)
              /\ \A f \in backfill_output : f.run_number # n
              /\ k = Len(events) =>
                    /\ exception = "none"
                    /\ pc \in {"uninstall_apk"} \cup EndPcs
                    /\ pc = "uninstall_apk" => RunNumber = n + 1
              /\ pc \in EndPcs =>
                    \A m \in (n + 1)..(Len(apk_metadata_array) - 1) :
                        /\ Happened("adb uninstall", m)
                        /\ Happened("adb install", m)
                        /\ HappenedWith("adb install", m, "ok") => Happened("measure_start_up", m)

C5_Witness ==
    /\ pc = "done"
    /\ HappenedWith("adb install", 0, "fail")
    /\ HappenedWith("adb install", 1, "ok")
    /\ \E f \in backfill_output : f.kind = "perf_results" /\ f.run_number = 1

\* C6: when the measurement script leaves no durations file for a build, the
\* absence is logged, no statistics file is written for the build, no error
\* escapes get_result_from_durations, and the later builds are still
\* installed and measured.
C6_MissingDurationsSkipsThatBuildOnly ==
    \A k \in EventIdx :
        (events[k].op = "measure_start_up" /\ events[k].outcome # "ok" /\ k < Len(events)) =>
          LET n == events[k].arg
              apk_name == ApkName(apk_metadata_array[n + 1].name)
          IN  /\ events[k + 1].op = "get_result_from_durations"
              /\ Printed("durations file doesn't exist", DurationsOutputPath(n, apk_name))
              /\ \A f \in backfill_output : f.run_number # n
              /\ k + 1 = Len(events) =>
                    /\ exception = "none"
                    /\ pc \in {"uninstall_apk"} \cup EndPcs
                    /\ pc = "uninstall_apk" => RunNumber = n + 1
              /\ pc \in EndPcs =>
                    \A m \in (n + 1)..(Len(apk_metadata_array) - 1) :
                        /\ Happened("adb install", m)
                        /\ HappenedWith("adb install", m, "ok") => Happened("measure_start_up", m)

C6_Witness ==
    /\ pc = "done"
    /\ HappenedWith("measure_start_up", 0, "fail")
    /\ Happened("get_result_from_durations", 0)
    /\ HappenedWith("measure_start_up", 1, "ok")
    /\ \E f \in backfill_output : f.kind = "perf_results" /\ f.run_number = 1

\* C7: in commit mode, whatever the outcome of the earlier commits' checkout,
\* compile or artifact move, a checkout is attempted for every commit of the
\* range, in the listed order.
C7_EveryCommitAttempted ==
    (Commits /\ HappenedWith("git rev-list", "range", "ok")
             /\ pc \notin {"get_all_commits_in_commits_range", "build_apk_for_commit",
                           "move_apk_to_cwd"})
        => DatesOf(CheckoutEvents) = array_of_commit_hash

\* C8: every descriptor handed to the install/measure step names an existing
\* local file that holds the artifact of the descriptor's own date or commit,
\* and none is there for a commit whose checkout or compile failed.
C8_DescriptorsNameOwnArtifact ==
    pc \in MeasurePcs =>
      \A d \in DescriptorIdx :
          LET m == apk_metadata_array[d]
          IN  /\ \E f \in files :
                    /\ f.name = m.name
                    /\ f.origin = IF Nightly THEN Strftime(m.date) ELSE m.commit
              /\ Commits => /\ ~HappenedWith("git checkout", m.commit, "fail")
                            /\ ~HappenedWith("gradlew assemble", m.commit, "fail")

\* C9: get_date_array_for_range(startdate, enddate) with startdate <= enddate
\* starts at startdate, steps by exactly one day, ends on enddate's calendar
\* day and has (days between the endpoints) + 1 entries; with startdate after
\* enddate it is empty.
C9_DateRangeInclusiveContiguous ==
    (Nightly /\ pc \notin {"validate_args", "get_date_array_for_range"}) =>
      LET r == array_of_dates
          s == args.startdate
          e == args.enddate
      IN  IF s <= e
          THEN /\ Len(r) = (e \div TicksPerDay) - (s \div TicksPerDay) + 1
               /\ r[1] = s
               /\ \A k \in 1..(Len(r) - 1) : r[k + 1] = r[k] + TicksPerDay
               /\ r[Len(r)] \div TicksPerDay = e \div TicksPerDay
          ELSE r = <<>>

C9_Witness ==
    /\ pc = "fetch_nightly"
    /\ args.startdate < args.enddate
    /\ args.enddate % TicksPerDay # 0
    /\ Len(array_of_dates) >= 3

\* C10: the run is a sequential pipeline: no artifact is acquired once the
\* first uninstall has run; for each descriptor in list order uninstall comes
\* first, install follows whatever the uninstall's outcome, the measurement
\* script runs only after a successful install and the aggregation right
\* after it; build n+1 starts only when build n is over; artifacts are deleted
\* only when the cleanup switch is set and only after the last build.
C10_SequentialPipeline ==
    /\ \A a, b \in EventIdx :
          (a < b /\ events[a].op \in MeasureOps \cup {"rm"}) => events[b].op \notin AcquisitionOps
    /\ \A a, b \in EventIdx : (a < b /\ events[a].op = "rm") => events[b].op = "rm"
    /\ (\E k \in EventIdx : events[k].op \in MeasureOps \cup {"rm"})
          => pc \in MeasurePcs \cup EndPcs
    /\ (\E k \in EventIdx : events[k].op = "rm") =>
          /\ args.cleanup
          /\ pc \in EndPcs
          /\ \A n \in 0..(Len(apk_metadata_array) - 1) :
                \/ HappenedWith("adb install", n, "fail")
                \/ Happened("get_result_from_durations", n)
    /\ \A k \in EventIdx :
          LET e == events[k]
          IN  /\ e.op = "adb uninstall" =>
                    IF e.arg = 0
                    THEN k = 1 \/ events[k - 1].op \in AcquisitionOps
                    ELSE /\ k > 1
                         /\ \/ events[k - 1].op = "adb install" /\ events[k - 1].outcome # "ok"
                            \/ events[k - 1].op = "get_result_from_durations"
                         /\ events[k - 1].arg = e.arg - 1
              /\ e.op = "adb install" =>
                    /\ k > 1
                    /\ events[k - 1].op = "adb uninstall"
                    /\ events[k - 1].arg = e.arg
              /\ e.op = "measure_start_up" =>
                    /\ k > 1
                    /\ events[k - 1].op = "adb install"
                    /\ events[k - 1].outcome = "ok"
                    /\ events[k - 1].arg = e.arg
              /\ e.op = "get_result_from_durations" =>
                    /\ k > 1
                    /\ events[k - 1].op = "measure_start_up"
                    /\ events[k - 1].arg = e.arg
              /\ (e.op = "adb uninstall" /\ k = Len(events)) => pc = "install_apk"

C10_Witness ==
    /\ pc = "done"
    /\ args.cleanup
    /\ HappenedWith("adb uninstall", 0, "fail")
    /\ HappenedWith("adb install", 0, "ok")
    /\ Happened("get_result_from_durations", 1)
    /\ Happened("rm", 1)

====
